---------------------------- MODULE Spec2Model ----------------------------
(***************************************************************************)
(* A model of pdf_merger's merge (src/src/merger.rs): merge_pdfs loads the *)
(* input files, process_documents renumbers each document into its own     *)
(* identifier range and aggregates pages and objects, and merge_documents  *)
(* reconciles the Catalog and the Pages root, re-attaches the pages and    *)
(* renumbers the result.                                                   *)
(*                                                                         *)
(* An ObjectId (number, generation) is modelled by its number: merger.rs   *)
(* never reads the generation and renumbering keeps it.  An Object is a    *)
(* record [kind, dict]; a dictionary is a function from key to a value     *)
(* record [t, n, s, a] (Reference n, Integer n, Name s, Array of           *)
(* references a).  The operations of the lopdf library (type_name,         *)
(* as_dict, Dictionary::set/remove/extend, get_pages,                      *)
(* renumber_objects_with) are not part of src/; they are modelled by the   *)
(* contract the design document gives them.                                *)
(***************************************************************************)
EXTENDS Integers, Sequences, FiniteSets, TLC

\* The most input paths given to merge_pdfs.
MaxDocs == 2
\* The most pages in one input document's page tree.
MaxPages == 2
\* The most objects in the tables handed directly to merge_documents.
MaxMergeIds == 5

---------------------------------------------------------------------------
\* Values and objects (lopdf::Object)

Reference(i) == [t |-> "Reference", n |-> i, s |-> "", a |-> <<>>]
IntegerValue(i) == [t |-> "Integer", n |-> i, s |-> "", a |-> <<>>]
Name(x) == [t |-> "Name", n |-> 0, s |-> x, a |-> <<>>]
\* An array of references
Array(ids) == [t |-> "Array", n |-> 0, s |-> "", a |-> ids]

EmptyDict == [k \in {} |-> IntegerValue(0)]

Dictionary(d) == [kind |-> "Dictionary", dict |-> d]
Stream(d) == [kind |-> "Stream", dict |-> d]
\* An object that is neither a dictionary nor a stream
IntegerObject == [kind |-> "Integer", dict |-> EmptyDict]

\* Dictionary::set
Set(d, k, v) == [x \in (DOMAIN d) \cup {k} |-> IF x = k THEN v ELSE d[x]]

\* Dictionary::remove
Remove(d, k) == [x \in (DOMAIN d) \ {k} |-> d[x]]

\* Dictionary::extend: the entries of other laid over self; other's value
\* wins where both have the key, and self's other keys stay.
Extend(self, other) ==
  [x \in (DOMAIN self) \cup (DOMAIN other) |->
     IF x \in DOMAIN other THEN other[x] ELSE self[x]]

\* Object::as_dict is Ok only for a Dictionary.
IsDict(object) == object.kind = "Dictionary"

\* Object::type_name().unwrap_or(""): the Type name of a dictionary or of a
\* stream's dictionary, "" for anything else.
TypeName(object) ==
  IF /\ object.kind \in {"Dictionary", "Stream"}
     /\ "Type" \in DOMAIN object.dict
     /\ object.dict["Type"].t = "Name"
  THEN object.dict["Type"].s
  ELSE ""

---------------------------------------------------------------------------
\* Ordered maps (BTreeMap<ObjectId, Object>) and documents

EmptyMap == [i \in {} |-> IntegerObject]

Min(S) == CHOOSE x \in S : \A y \in S : x <= y
Max(S) == CHOOSE x \in S : \A y \in S : y <= x

\* How many elements of S are below i.
Rank(S, i) == Cardinality({j \in S : j < i})

\* The keys of a BTreeMap in iteration order (ascending).
Keys(S) == [k \in 1..Cardinality(S) |-> CHOOSE i \in S : Rank(S, i) = k - 1]

\* BTreeMap::extend: insert every entry of m2, replacing equal keys.
MapExtend(m1, m2) ==
  [i \in (DOMAIN m1) \cup (DOMAIN m2) |-> IF i \in DOMAIN m2 THEN m2[i] ELSE m1[i]]

\* BTreeMap::insert
MapInsert(m, i, object) == MapExtend(m, [j \in {i} |-> object])

Range(s) == {s[i] : i \in DOMAIN s}

\* lopdf::Document: the object table, the trailer dictionary, max_id.
Doc(objects, trailer, maxId) ==
  [objects |-> objects, trailer |-> trailer, max_id |-> maxId]

\* Document::with_version("1.5")
NewDocument == Doc(EmptyMap, EmptyDict, 0)

---------------------------------------------------------------------------
\* The library's document operations

\* The most levels of Pages nodes get_pages descends.
PageTreeDepth == 2

\* A value with every reference it holds mapped through replace; a
\* reference to an identifier that is not renumbered stays.
ReplaceValue(v, replace) ==
  CASE v.t = "Reference" ->
         IF v.n \in DOMAIN replace THEN Reference(replace[v.n]) ELSE v
    [] v.t = "Array" ->
         Array([k \in DOMAIN v.a |->
                  IF v.a[k] \in DOMAIN replace THEN replace[v.a[k]] ELSE v.a[k]])
    [] OTHER -> v

ReplaceDict(d, replace) == [k \in DOMAIN d |-> ReplaceValue(d[k], replace)]

\* Document::renumber_objects_with(starting_id): the identifiers become
\* starting_id, starting_id + 1, ... in ascending order of the old ones,
\* every reference follows, and max_id is the last identifier given.
RenumberObjectsWith(doc, starting_id) ==
  LET ids == DOMAIN doc.objects
      replace == [i \in ids |-> starting_id + Rank(ids, i)]
      old(new) == CHOOSE i \in ids : Rank(ids, i) = new - starting_id
  IN Doc([new \in starting_id..(starting_id + Cardinality(ids) - 1) |->
            [kind |-> doc.objects[old(new)].kind,
             dict |-> ReplaceDict(doc.objects[old(new)].dict, replace)]],
         ReplaceDict(doc.trailer, replace),
         starting_id + Cardinality(ids) - 1)

\* The identifier a dictionary entry refers to, 0 when it is no reference.
RefOf(d, k) == IF k \in DOMAIN d /\ d[k].t = "Reference" THEN d[k].n ELSE 0

\* The Kids of a Pages dictionary in the table, <<>> when there are none.
KidsOf(doc, id) ==
  IF /\ id \in DOMAIN doc.objects
     /\ IsDict(doc.objects[id])
     /\ "Kids" \in DOMAIN doc.objects[id].dict
     /\ doc.objects[id].dict["Kids"].t = "Array"
  THEN doc.objects[id].dict["Kids"].a
  ELSE <<>>

\* The page tree walk: a kid that is a Page dictionary is a leaf, a kid
\* that is a Pages dictionary is descended, anything else is skipped.
RECURSIVE PageTree(_, _, _)
PageTree(doc, kids, depth) ==
  IF kids = <<>> THEN <<>>
  ELSE LET kid == Head(kids)
           here ==
             IF kid \in DOMAIN doc.objects /\ IsDict(doc.objects[kid])
             THEN CASE TypeName(doc.objects[kid]) = "Page" -> <<kid>>
                    [] TypeName(doc.objects[kid]) = "Pages" /\ depth > 0 ->
                         PageTree(doc, KidsOf(doc, kid), depth - 1)
                    [] OTHER -> <<>>
             ELSE <<>>
       IN here \o PageTree(doc, Tail(kids), depth)

\* Document::get_pages().into_values(): the page identifiers in display
\* order, from the trailer's Root through the Catalog's Pages.
GetPages(doc) ==
  LET root == RefOf(doc.trailer, "Root")
      tree == IF root \in DOMAIN doc.objects /\ IsDict(doc.objects[root])
              THEN RefOf(doc.objects[root].dict, "Pages")
              ELSE 0
  IN PageTree(doc, KidsOf(doc, tree), PageTreeDepth)

---------------------------------------------------------------------------
\* The input files

\* Where the objects of an input file sit in its table: the identifiers
\* have a gap after the length object and after the last page.
Layout == [catalog |-> 1, root |-> 2, length |-> 3, font |-> 5, page |-> 6]
CatalogId == Layout.catalog
RootId == Layout.root
LengthId == Layout.length
FontId == Layout.font
FirstPageId == Layout.page
OutlinesId == FirstPageId + MaxPages + 1
OutlineId == OutlinesId + 1

\* The pages of a document in display order: identifiers ascending, or,
\* for two pages and more, descending.
Ascending(np) == [k \in 1..np |-> FirstPageId + k - 1]
Descending(np) == [k \in 1..np |-> FirstPageId + np - k]
KidsChoices ==
  {Ascending(np) : np \in 0..MaxPages} \cup {Descending(np) : np \in 2..MaxPages}

\* "dict": a Catalog dictionary; "outl": a Catalog dictionary with an
\* Outlines entry, and the outline tree it names; "stream": a stream whose
\* dictionary is tagged Catalog; "none": no Catalog.
CatalogChoices == {"dict", "outl", "stream", "none"}

\* The Pages root: a dictionary without Rotate, with Rotate 0 or 90, or a
\* stream whose dictionary is tagged Pages.
RootChoices == {"plain", "rot0", "rot90", "stream"}

PagesDict(kids, root) ==
  LET d == [k \in {"Type", "Kids", "Count"} |->
              CASE k = "Type" -> Name("Pages")
                [] k = "Kids" -> Array(kids)
                [] OTHER -> IntegerValue(Len(kids))]
  IN CASE root = "rot0" -> Set(d, "Rotate", IntegerValue(0))
       [] root = "rot90" -> Set(d, "Rotate", IntegerValue(90))
       [] OTHER -> d

\* What page k (in display order) of the file at path i shows.
Contents(i, k) == 10 * i + k

PageDict(i, k) ==
  [x \in {"Type", "Parent", "Contents"} |->
     CASE x = "Type" -> Name("Page")
       [] x = "Parent" -> Reference(RootId)
       [] OTHER -> IntegerValue(Contents(i, k))]

CatalogDict(cat) ==
  LET d == [x \in {"Type", "Pages"} |->
              IF x = "Type" THEN Name("Catalog") ELSE Reference(RootId)]
  IN IF cat = "outl" THEN Set(d, "Outlines", Reference(OutlinesId)) ELSE d

\* The document decoded from the file at path i.
InputDocument(i, kids, cat, root) ==
  LET ids == {RootId, LengthId, FontId} \cup Range(kids)
               \cup (IF cat = "none" THEN {} ELSE {CatalogId})
               \cup (IF cat = "outl" THEN {OutlinesId, OutlineId} ELSE {})
      object(id) ==
        CASE id = CatalogId ->
               IF cat = "stream" THEN Stream(CatalogDict(cat))
               ELSE Dictionary(CatalogDict(cat))
          [] id = RootId ->
               IF root = "stream" THEN Stream(PagesDict(kids, root))
               ELSE Dictionary(PagesDict(kids, root))
          [] id = LengthId -> IntegerObject
          [] id = FontId -> Dictionary([x \in {"Type"} |-> Name("Font")])
          [] id = OutlinesId ->
               Dictionary([x \in {"Type", "First"} |->
                  IF x = "Type" THEN Name("Outlines") ELSE Reference(OutlineId)])
          [] id = OutlineId ->
               Dictionary([x \in {"Type", "Parent"} |->
                  IF x = "Type" THEN Name("Outline") ELSE Reference(OutlinesId)])
          [] OTHER ->
               Dictionary(PageDict(i, CHOOSE k \in DOMAIN kids : kids[k] = id))
  IN Doc([id \in ids |-> object(id)],
         [x \in {"Root"} |-> Reference(CatalogId)],
         Max(ids))

\* The Catalog and the root of one file that is not the plain one: every
\* other Catalog with a plain root, and every other root with a Catalog
\* dictionary.
ShapeChoices ==
  ({<<cat, "plain">> : cat \in CatalogChoices}
   \cup {<<"dict", root>> : root \in RootChoices}) \ {<<"dict", "plain">>}

\* The pages such a file comes with: one, or the most in descending order.
ShapeKids == {Ascending(1), Descending(MaxPages)}

File(kids, cat, root) == [valid |-> TRUE, kids |-> kids, cat |-> cat, root |-> root]

\* A file: a plain one of any pages, one of another shape, or one that
\* does not decode.
Files ==
  {File(kids, "dict", "plain") : kids \in KidsChoices}
  \cup {File(kids, shape[1], shape[2]) : kids \in ShapeKids, shape \in ShapeChoices}
  \cup {[valid |-> FALSE, kids |-> <<>>, cat |-> "none", root |-> "plain"]}

\* The files behind n paths.
RECURSIVE FileLists(_)
FileLists(n) ==
  IF n = 0 THEN {<<>>}
  ELSE {Append(fs, f) : fs \in FileLists(n - 1), f \in Files}

\* Document::load of the file at path i, when it decodes.
DocumentLoad(i, file) == InputDocument(i, file.kids, file.cat, file.root)

---------------------------------------------------------------------------
\* merger.rs

None == [some |-> FALSE, id |-> 0, object |-> IntegerObject]
Some(id, object) == [some |-> TRUE, id |-> id, object |-> object]

Running == [status |-> "running", error |-> "", at |-> 0]
Ok == [status |-> "Ok", error |-> "", at |-> 0]
Err(error, at) == [status |-> "Err", error |-> error, at |-> at]

\* extract_pages: the document's pages, keyed by identifier.
ExtractPages(document) ==
  [id \in Range(GetPages(document)) |-> document.objects[id]]

\* The counter left at the document's last identifier.
NextMaxIdAtLast(document) == document.max_id

\* process_documents, line 28: the counter after a document.
NextMaxId(document) == document.max_id + 1

\* process_documents, the loop body: acc is (max_id, documents_pages,
\* documents_objects), and spans records each document's starting counter
\* and the identifiers it was given.
ProcessDocument(acc, doc) ==
  LET document == RenumberObjectsWith(doc, acc.max_id)
  IN [max_id |-> NextMaxId(document),
      documents_pages |-> MapExtend(acc.documents_pages, ExtractPages(document)),
      documents_objects |-> MapExtend(acc.documents_objects, document.objects),
      spans |-> Append(acc.spans,
                  [start |-> acc.max_id, ids |-> DOMAIN document.objects])]

ProcessInit ==
  [max_id |-> 1, documents_pages |-> EmptyMap, documents_objects |-> EmptyMap,
   spans |-> <<>>]

\* find_catalog_and_pages, the Catalog arm: the first Catalog is kept.
KeepCatalog(catalog_object, object_id, object) ==
  IF ~catalog_object.some THEN Some(object_id, object) ELSE catalog_object

\* The new Pages dictionary laid over the accumulated one.
FoldPagesLatestWins(dictionary, pages_object) ==
  IF pages_object.some /\ IsDict(pages_object.object)
  THEN Extend(pages_object.object.dict, dictionary)
  ELSE dictionary

\* find_catalog_and_pages, lines 83-89: the new Pages dictionary with the
\* accumulated one laid over it.
FoldPages(dictionary, pages_object) ==
  IF pages_object.some /\ IsDict(pages_object.object)
  THEN Extend(dictionary, pages_object.object.dict)
  ELSE dictionary

\* find_catalog_and_pages, the Pages arm.
KeepPages(pages_object, object_id, object) ==
  IF IsDict(object)
  THEN Some(object_id, Dictionary(FoldPages(object.dict, pages_object)))
  ELSE pages_object

\* find_catalog_and_pages, the arms that drop the object.
Dropped(type_name) == type_name \in {"Page", "Outlines", "Outline"}

\* find_catalog_and_pages, the loop over the aggregated table.
RECURSIVE FindLoop(_, _, _)
FindLoop(ids, documents_objects, acc) ==
  IF ids = <<>> THEN acc
  ELSE LET object_id == Head(ids)
           object == documents_objects[object_id]
           type_name == TypeName(object)
           step ==
             CASE type_name = "Catalog" ->
                    [acc EXCEPT !.catalog = KeepCatalog(@, object_id, object)]
               [] type_name = "Pages" ->
                    [acc EXCEPT !.pages = KeepPages(@, object_id, object)]
               [] Dropped(type_name) -> acc
               [] OTHER ->
                    [acc EXCEPT !.objects = MapInsert(@, object_id, object)]
       IN FindLoop(Tail(ids), documents_objects, step)

\* The Catalog alone is asked for.
FoundCatalogOnly(catalog_object, pages_object) == catalog_object.some

\* find_catalog_and_pages, lines 99-105: both anchors or an error.
Found(catalog_object, pages_object) == catalog_object.some /\ pages_object.some

FindCatalogAndPages(documents_objects) ==
  LET acc == FindLoop(Keys(DOMAIN documents_objects), documents_objects,
                      [objects |-> EmptyMap, catalog |-> None, pages |-> None])
  IN [objects |-> acc.objects, catalog |-> acc.catalog, pages |-> acc.pages,
      result |-> IF Found(acc.catalog, acc.pages) THEN Ok
                 ELSE Err("Failed to find catalog and pages objects", 0)]

\* insert_pages, the Ok arm: the page with its Parent set.
Attach(dictionary, pages_id) == Set(dictionary, "Parent", Reference(pages_id))

\* insert_pages: the loop stops at the first page that is no dictionary.
RECURSIVE InsertLoop(_, _, _, _)
InsertLoop(ids, documents_pages, pages_id, objects) ==
  IF ids = <<>> THEN [objects |-> objects, result |-> Ok]
  ELSE LET object_id == Head(ids)
           object == documents_pages[object_id]
       IN IF IsDict(object)
          THEN InsertLoop(Tail(ids), documents_pages, pages_id,
                 MapInsert(objects, object_id,
                           Dictionary(Attach(object.dict, pages_id))))
          ELSE [objects |-> objects, result |-> Err("Type", object_id)]

\* A page that is no dictionary is passed over.
InsertPagesSkipping(objects, documents_pages, pages_id) ==
  [objects |->
     MapExtend(objects,
       [id \in {i \in DOMAIN documents_pages : IsDict(documents_pages[i])} |->
          Dictionary(Attach(documents_pages[id].dict, pages_id))]),
   result |-> Ok]

InsertPages(objects, documents_pages, pages_id) ==
  InsertLoop(Keys(DOMAIN documents_pages), documents_pages, pages_id, objects)

\* Kids is set and Count is left as it was.
CountAndKidsStale(dictionary, documents_pages) ==
  Set(dictionary, "Kids", Array(Keys(DOMAIN documents_pages)))

\* update_pages_object, lines 140-147: Count and Kids of the Pages root.
CountAndKids(dictionary, documents_pages) ==
  Set(Set(dictionary, "Count", IntegerValue(Cardinality(DOMAIN documents_pages))),
      "Kids", Array(Keys(DOMAIN documents_pages)))

UpdatePagesObject(objects, pages_object, documents_pages, pages_id) ==
  IF IsDict(pages_object)
  THEN MapInsert(objects, pages_id,
                 Dictionary(CountAndKids(pages_object.dict, documents_pages)))
  ELSE objects

\* Pages is set and Outlines is left in.
PointAtPagesKeepingOutlines(dictionary, pages_id) ==
  Set(dictionary, "Pages", Reference(pages_id))

\* update_catalog_object, lines 163-164.
PointAtPages(dictionary, pages_id) ==
  Remove(Set(dictionary, "Pages", Reference(pages_id)), "Outlines")

UpdateCatalogObject(objects, catalog_object, catalog_id, pages_id) ==
  IF IsDict(catalog_object)
  THEN MapInsert(objects, catalog_id,
                 Dictionary(PointAtPages(catalog_object.dict, pages_id)))
  ELSE objects

\* merge_documents, lines 59-62: the trailer's Root, max_id, the final
\* renumbering from 1 (compress changes no object's kind or dictionary).
Finish(doc, catalog_id) ==
  RenumberObjectsWith(
    Doc(doc.objects, Set(doc.trailer, "Root", Reference(catalog_id)),
        Cardinality(DOMAIN doc.objects)),
    1)

\* The documents in the order their loads ended.
LoadedDocumentsAsCompleted(paths, order) ==
  [k \in 1..Len(order) |-> DocumentLoad(order[k], paths[order[k]])]

\* load_documents: par_iter().map(Document::load).collect() gives the
\* documents in the order of the paths, whatever order the loads end in.
LoadedDocuments(paths, order) ==
  [i \in 1..Len(paths) |-> DocumentLoad(i, paths[i])]

---------------------------------------------------------------------------
\* The state machine

VARIABLES
  pc,                 \* where merge_pdfs is
  files,              \* the file behind each path, in input order
  completed,          \* the paths whose load has ended, in the order they
                      \* ended, until process_documents takes the documents
  documents,          \* load_documents' result, less the documents that
                      \* process_documents has consumed
  max_id,             \* process_documents' counter
  documents_pages,    \* the aggregated pages
  documents_objects,  \* the aggregated objects
  spans,              \* per processed document: starting counter, identifiers
  document,           \* merge_documents' working document
  catalog_object,     \* find_catalog_and_pages' Catalog
  pages_object,       \* find_catalog_and_pages' Pages
  result              \* what merge_pdfs returns

vars == <<pc, files, completed, documents, max_id, documents_pages,
          documents_objects, spans, document, catalog_object, pages_object,
          result>>

loadVars == <<files, completed, documents>>
processVars == <<max_id, documents_pages, documents_objects, spans>>
mergeVars == <<document, catalog_object, pages_object>>

Init ==
  /\ pc = "load"
  /\ files \in UNION {FileLists(n) : n \in 0..MaxDocs}
  /\ completed = <<>>
  /\ documents = <<>>
  /\ max_id = ProcessInit.max_id
  /\ documents_pages = ProcessInit.documents_pages
  /\ documents_objects = ProcessInit.documents_objects
  /\ spans = ProcessInit.spans
  /\ document = NewDocument
  /\ catalog_object = None
  /\ pages_object = None
  /\ result = Running

\* One Document::load ends; the loads run in parallel, so in any order.
Load(i) ==
  /\ pc = "load"
  /\ i \notin Range(completed)
  /\ completed' = Append(completed, i)
  /\ UNCHANGED <<pc, files, documents, processVars, mergeVars, result>>

Failed == {i \in Range(completed) : ~files[i].valid}

\* load_documents returns: the documents once every load has ended well, or
\* the error of a load that failed (the loads not yet run are given up).
LoadDocuments ==
  /\ pc = "load"
  /\ \/ /\ Failed = {}
        /\ Range(completed) = 1..Len(files)
        /\ documents' = LoadedDocuments(files, completed)
        /\ pc' = "process"
        /\ result' = result
     \/ /\ \E i \in Failed : result' = Err("load", i)
        /\ documents' = documents
        /\ pc' = "done"
  /\ UNCHANGED <<files, completed, processVars, mergeVars>>

\* process_documents: one turn of the loop.
ProcessDocuments ==
  /\ pc = "process"
  /\ documents # <<>>
  /\ \E acc \in {ProcessDocument(
                    [max_id |-> max_id, documents_pages |-> documents_pages,
                     documents_objects |-> documents_objects, spans |-> spans],
                    Head(documents))} :
       /\ max_id' = acc.max_id
       /\ documents_pages' = acc.documents_pages
       /\ documents_objects' = acc.documents_objects
       /\ spans' = acc.spans
  /\ documents' = Tail(documents)
  /\ completed' = <<>>
  /\ UNCHANGED <<pc, files, mergeVars, result>>

\* merge_documents, lines 50-53.
FindStep ==
  /\ pc = "process"
  /\ documents = <<>>
  /\ \E found \in {FindCatalogAndPages(documents_objects)} :
       /\ document' = Doc(found.objects, NewDocument.trailer, NewDocument.max_id)
       /\ catalog_object' = found.catalog
       /\ pages_object' = found.pages
       /\ IF found.result = Ok
          THEN pc' = "insert_pages" /\ result' = result
          ELSE pc' = "done" /\ result' = found.result
  /\ completed' = <<>>
  /\ UNCHANGED <<files, documents, processVars>>

\* merge_documents, line 55.
InsertStep ==
  /\ pc = "insert_pages"
  /\ \E inserted \in {InsertPages(document.objects, documents_pages,
                                   pages_object.id)} :
       /\ document' = [document EXCEPT !.objects = inserted.objects]
       /\ IF inserted.result = Ok
          THEN pc' = "update_pages_object" /\ result' = result
          ELSE pc' = "done" /\ result' = inserted.result
  /\ UNCHANGED <<loadVars, processVars, catalog_object, pages_object>>

\* merge_documents, line 56.
UpdatePagesStep ==
  /\ pc = "update_pages_object"
  /\ document' = [document EXCEPT !.objects =
       UpdatePagesObject(@, pages_object.object, documents_pages, pages_object.id)]
  /\ pc' = "update_catalog_object"
  /\ UNCHANGED <<loadVars, processVars, catalog_object, pages_object, result>>

\* merge_documents, line 57.
UpdateCatalogStep ==
  /\ pc = "update_catalog_object"
  /\ document' = [document EXCEPT !.objects =
       UpdateCatalogObject(@, catalog_object.object, catalog_object.id,
                           pages_object.id)]
  /\ pc' = "finish"
  /\ UNCHANGED <<loadVars, processVars, catalog_object, pages_object, result>>

\* merge_documents, lines 59-64.
FinishStep ==
  /\ pc = "finish"
  /\ document' = Finish(document, catalog_object.id)
  /\ result' = Ok
  /\ pc' = "done"
  /\ UNCHANGED <<loadVars, processVars, catalog_object, pages_object>>

MergeNext ==
  \/ FindStep
  \/ InsertStep
  \/ UpdatePagesStep
  \/ UpdateCatalogStep
  \/ FinishStep

Next ==
  \/ \E i \in 1..Len(files) : Load(i)
  \/ LoadDocuments
  \/ ProcessDocuments
  \/ MergeNext

\* merge_pdfs on the files of the paths.
Spec == Init /\ [][Next]_vars

---------------------------------------------------------------------------
\* merge_documents on tables given directly, as the unit test calls it: any
\* table, and for the leaves any of its objects tagged Page, dictionaries
\* or not.

\* The objects of a role in a table.
OfType(objects, type_name) ==
  {id \in DOMAIN objects : TypeName(objects[id]) = type_name}

\* The objects such a table may hold.
MergePool ==
  {Dictionary(CatalogDict("outl")),
   Dictionary(PagesDict(<<>>, "rot0")),
   Dictionary(PageDict(1, 1)),
   Stream(PageDict(1, 2)),
   Dictionary([x \in {"Type"} |-> Name("Font")]),
   IntegerObject}

InitMerge ==
  /\ pc = "process"
  /\ files = <<>>
  /\ completed = <<>>
  /\ documents = <<>>
  /\ max_id = ProcessInit.max_id
  /\ spans = ProcessInit.spans
  /\ \E n \in 0..MaxMergeIds :
       /\ documents_objects \in [1..n -> MergePool]
       /\ \E S \in SUBSET OfType(documents_objects, "Page") :
            documents_pages = [i \in S |-> documents_objects[i]]
  /\ document = NewDocument
  /\ catalog_object = None
  /\ pages_object = None
  /\ result = Running

SpecMerge == InitMerge /\ [][MergeNext]_vars

---------------------------------------------------------------------------
\* merge_pdfs run in one piece, the loads in the order of the paths

RECURSIVE ProcessFrom(_, _, _)
ProcessFrom(docs, k, acc) ==
  IF k > Len(docs) THEN acc
  ELSE ProcessFrom(docs, k + 1, ProcessDocument(acc, docs[k]))

\* process_documents
ProcessAll(docs) == ProcessFrom(docs, 1, ProcessInit)

\* merge_documents
MergeDocuments(pages, objects) ==
  LET found == FindCatalogAndPages(objects)
      inserted == InsertPages(found.objects, pages, found.pages.id)
      withPages == UpdatePagesObject(inserted.objects, found.pages.object,
                                     pages, found.pages.id)
      withCatalog == UpdateCatalogObject(withPages, found.catalog.object,
                                         found.catalog.id, found.pages.id)
  IN CASE found.result # Ok -> [result |-> found.result, document |-> NewDocument]
       [] inserted.result # Ok ->
            [result |-> inserted.result, document |-> NewDocument]
       [] OTHER ->
            [result |-> Ok,
             document |-> Finish(Doc(withCatalog, NewDocument.trailer,
                                     NewDocument.max_id),
                                 found.catalog.id)]

\* merge_pdfs
MergePdfs(paths) ==
  IF \E i \in 1..Len(paths) : ~paths[i].valid
  THEN [result |-> Err("load", 0), document |-> NewDocument]
  ELSE LET acc == ProcessAll([i \in 1..Len(paths) |-> DocumentLoad(i, paths[i])])
       IN MergeDocuments(acc.documents_pages, acc.documents_objects)

---------------------------------------------------------------------------
\* What the claims speak of

\* merge_pdfs returned a document.
Succeeded == pc = "done" /\ result = Ok

RECURSIVE Sum(_, _)
Sum(f, S) ==
  IF S = {} THEN 0
  ELSE LET x == CHOOSE y \in S : TRUE IN f[x] + Sum(f, S \ {x})

RECURSIVE Concat(_, _)
Concat(seqs, k) ==
  IF k > Len(seqs) THEN <<>> ELSE seqs[k] \o Concat(seqs, k + 1)

\* The input documents as loaded, in the order of the paths.
Inputs == [i \in 1..Len(files) |-> DocumentLoad(i, files[i])]

\* The leaves of the input documents: how many, and what each shows, in
\* the order of the inputs and, within one, in its display order.
TotalLeaves ==
  Sum([i \in DOMAIN Inputs |-> Cardinality(Range(GetPages(Inputs[i])))],
      DOMAIN Inputs)
DisplayOrder ==
  Concat([i \in DOMAIN Inputs |->
            [k \in DOMAIN GetPages(Inputs[i]) |->
               Inputs[i].objects[GetPages(Inputs[i])[k]].dict["Contents"].n]],
         1)

\* The output's Pages root (the least, were there several) and what its
\* Kids show, in order.
OutRoot == Min(OfType(document.objects, "Pages"))
OutKids == KidsOf(document, OutRoot)
OutOrder ==
  [k \in DOMAIN OutKids |->
     IF /\ OutKids[k] \in DOMAIN document.objects
        /\ "Contents" \in DOMAIN document.objects[OutKids[k]].dict
     THEN document.objects[OutKids[k]].dict["Contents"].n
     ELSE 0]

---------------------------------------------------------------------------
\* The claims

\* C1: after a successful merge the Pages root's Count equals the length of
\* its Kids, which equals the number of Page objects in the output table,
\* which equals the number of leaves of all the input documents.
CountKidsAndLeavesAgree ==
  Succeeded =>
    /\ OfType(document.objects, "Pages") # {}
    /\ "Count" \in DOMAIN document.objects[OutRoot].dict
    /\ document.objects[OutRoot].dict["Count"] = IntegerValue(Len(OutKids))
    /\ Len(OutKids) = Cardinality(OfType(document.objects, "Page"))
    /\ Len(OutKids) = TotalLeaves

\* Two documents and more, each of one leaf, were merged.
SingleLeafDocumentsMerged ==
  /\ Succeeded
  /\ Len(files) >= 2
  /\ \A i \in DOMAIN Inputs : Len(GetPages(Inputs[i])) = 1
  /\ Len(OutKids) = Len(files)

\* C2: after a successful merge the Kids of the Pages root list the leaves
\* in the order of the input documents and, within a document, in that
\* document's display order.
KidsInDisplayOrder ==
  Succeeded => OutOrder = DisplayOrder

\* C3: after a successful merge every leaf's Parent is the Pages root, and
\* the trailer's Root is a Catalog whose Pages is that same root.
ParentAndPagesNameTheRoot ==
  Succeeded =>
    /\ OfType(document.objects, "Pages") # {}
    /\ \A p \in OfType(document.objects, "Page") :
         RefOf(document.objects[p].dict, "Parent") = OutRoot
    /\ RefOf(document.trailer, "Root") \in OfType(document.objects, "Catalog")
    /\ RefOf(document.objects[RefOf(document.trailer, "Root")].dict, "Pages")
         = OutRoot

\* C4: a returned document holds exactly one Catalog and exactly one Pages
\* object, and the trailer's Root names that Catalog.
OneCatalogOnePages ==
  Succeeded =>
    /\ Cardinality(OfType(document.objects, "Catalog")) = 1
    /\ Cardinality(OfType(document.objects, "Pages")) = 1
    /\ RefOf(document.trailer, "Root") \in OfType(document.objects, "Catalog")

\* C5: after a successful merge no Catalog of the output has an Outlines
\* key, and no Outlines or Outline object is in the output table.
NoOutlinesSurvive ==
  Succeeded =>
    /\ OfType(document.objects, "Outlines") = {}
    /\ OfType(document.objects, "Outline") = {}
    /\ \A c \in OfType(document.objects, "Catalog") :
         "Outlines" \notin DOMAIN document.objects[c].dict

\* One document was merged whose Catalog had an Outlines entry and whose
\* table held the outline tree; the Catalog is in the output.
SingleDocumentWithOutlinesMerged ==
  /\ Succeeded
  /\ Len(files) = 1
  /\ "Outlines" \in DOMAIN catalog_object.object.dict
  /\ OfType(documents_objects, "Outline") # {}
  /\ OfType(document.objects, "Catalog") # {}

\* The Pages dictionaries of the aggregated table: what the fold goes over.
RootSources ==
  {id \in OfType(documents_objects, "Pages") : IsDict(documents_objects[id])}
HavingKey(k) == {id \in RootSources : k \in DOMAIN documents_objects[id].dict}

\* C6: for every key but Count and Kids that some source's Pages dictionary
\* has, the output's Pages root has the value of the earliest source that
\* has the key.
EarliestRootValueWins ==
  Succeeded =>
    \A k \in UNION {DOMAIN documents_objects[id].dict : id \in RootSources}
               \ {"Count", "Kids"} :
      /\ OfType(document.objects, "Pages") # {}
      /\ k \in DOMAIN document.objects[OutRoot].dict
      /\ document.objects[OutRoot].dict[k]
           = documents_objects[Min(HavingKey(k))].dict[k]

\* Two sources gave Rotate different values, and the output has the
\* earlier one's.
RotateConflictMerged ==
  /\ Succeeded
  /\ \E a, b \in HavingKey("Rotate") :
       /\ a < b
       /\ documents_objects[a].dict["Rotate"] # documents_objects[b].dict["Rotate"]
       /\ document.objects[OutRoot].dict["Rotate"]
            = documents_objects[a].dict["Rotate"]

\* find_catalog_and_pages has run.
FindRan == pc \notin {"load", "process"} /\ result.error # "load"

\* C7: when the pass over the aggregated table found no Catalog or no Pages
\* dictionary, the merge has ended with the error and no document; so it
\* does for no input at all.
MissingAnchorFails ==
  /\ FindRan /\ ~(catalog_object.some /\ pages_object.some) =>
       /\ pc = "done"
       /\ result = Err("Failed to find catalog and pages objects", 0)
  /\ pc = "done" /\ files = <<>> /\ documents_objects = EmptyMap =>
       result = Err("Failed to find catalog and pages objects", 0)

\* The merge of no document has ended, with the error.
EmptyMergeFailed ==
  /\ pc = "done"
  /\ files = <<>>
  /\ documents_objects = EmptyMap
  /\ result.status = "Err"

\* The aggregated leaves that are no dictionary.
BadLeaves == {id \in DOMAIN documents_pages : ~IsDict(documents_pages[id])}

\* C8: when a leaf of the aggregated leaves is no dictionary, the merge has
\* ended after insert_pages with the error at the first such leaf, and no
\* document, whatever the working table already holds.
NonDictionaryLeafFails ==
  pc \notin {"load", "process", "insert_pages"} /\ result.error # "load"
    /\ catalog_object.some /\ pages_object.some /\ BadLeaves # {} =>
       /\ pc = "done"
       /\ result = Err("Type", Min(BadLeaves))

\* The merge failed at a leaf after an earlier leaf and a passed-through
\* object were put in the working table.
FailedAfterInserts ==
  /\ pc = "done"
  /\ result.status = "Err"
  /\ result.error = "Type"
  /\ \E p \in DOMAIN documents_pages :
       /\ p < result.at
       /\ p \in DOMAIN document.objects
       /\ RefOf(document.objects[p].dict, "Parent") = pages_object.id
  /\ \E o \in DOMAIN document.objects : o \notin DOMAIN documents_pages

\* C9: the counter starts at 1; each document's identifiers start at the
\* counter and end below the next document's counter, so no two documents
\* share an identifier, and the aggregated table holds every object of
\* every document processed.
RangesDisjoint ==
  /\ Len(spans) >= 1 => spans[1].start = 1
  /\ \A k \in DOMAIN spans :
       /\ \A id \in spans[k].ids : id >= spans[k].start
       /\ \A id \in spans[k].ids :
            id < (IF k < Len(spans) THEN spans[k + 1].start ELSE max_id)
       /\ Cardinality(spans[k].ids) = Cardinality(DOMAIN Inputs[k].objects)
       /\ \A j \in DOMAIN spans : j < k => spans[j].ids \cap spans[k].ids = {}
  /\ DOMAIN documents_objects = UNION {spans[k].ids : k \in DOMAIN spans}
  /\ Cardinality(DOMAIN documents_objects)
       = Sum([k \in DOMAIN spans |-> Cardinality(DOMAIN Inputs[k].objects)],
             DOMAIN spans)

\* Two documents have been renumbered and aggregated.
TwoDocumentsAggregated ==
  /\ Len(spans) >= 2
  /\ spans[1].ids # {}
  /\ spans[2].ids # {}
  /\ spans[2].start > 1

\* C10: process_documents gets the documents in the order of the paths
\* whatever order the loads ended in, and merge_pdfs ends as it does with
\* the loads run in that order; when a load fails, the error names a file
\* that failed, nothing was renumbered or merged, and no document returns.
LoadOrderIrrelevant ==
  /\ pc = "process" => documents = SubSeq(Inputs, Len(spans) + 1, Len(files))
  /\ pc = "done" =>
       IF \E i \in 1..Len(files) : ~files[i].valid
       THEN /\ result.status = "Err"
            /\ result.error = "load"
            /\ result.at \in 1..Len(files)
            /\ ~files[result.at].valid
            /\ spans = <<>>
            /\ documents_objects = EmptyMap
            /\ documents_pages = EmptyMap
            /\ document = NewDocument
       ELSE /\ result = MergePdfs(files).result
            /\ result = Ok => document = MergePdfs(files).document

\* Two different documents were loaded, the second one first, and
\* process_documents is about to take them.
LoadedOutOfOrder ==
  /\ pc = "process"
  /\ completed = <<2, 1>>
  /\ documents = Inputs
  /\ Len(GetPages(documents[1])) # Len(GetPages(documents[2]))

============================================================================
